---- MODULE Spec2Model ----
(***************************************************************************)
(* NAT negotiation (NATNEG) server of wfc-server: the session registry,    *)
(* the per-cookie sessions and their clients, the Init / Connect-Reply /   *)
(* Report handlers, the pairing engine with its retry goroutines, and the  *)
(* 30 second expiry timer of a session.                                    *)
(*                                                                         *)
(* One datagram is handled by one goroutine (handleConnection).  Its       *)
(* registry critical section (lookup-or-create) is the action Receive; the *)
(* part that runs under the session lock (the command handler) is the      *)
(* action Handle.  The expiry callback is the three actions ExpiryFire,    *)
(* ExpiryDelete and ExpiryCancel, a retry goroutine's round is RetryRound. *)
(***************************************************************************)
EXTENDS Integers, Sequences, FiniteSets, Bags, TLC

(***************************************************************************)
(* Program constants.                                                      *)
(***************************************************************************)
NNInitRequest == 0
NNInitReply == 1
NNStateUpdate == 4
NNConnectRequest == 5
NNConnectReply == 6
NNAddressCheckRequest == 10
NNNatifyRequest == 12
NNReportRequest == 13
NNReportReply == 14
NNUnknownCommand == 17

PortTypeGamePort == 0
PortTypeNATNEG1 == 1
PortTypeNATNEG3 == 3

\* Session TTL in seconds (time.AfterFunc(30*time.Second, ...)).
TTL == 30

(***************************************************************************)
(* Bounds of the model.                                                    *)
(***************************************************************************)
\* Client indices (a byte in the code) are 1..MaxIndex.
MaxIndex == 3
\* Cookies (32 bit in the code) are 1..MaxCookie.
MaxCookie == 1
\* Session objects that are ever allocated.
MaxSessions == 2
\* Source addresses are 1..MaxAddr.
MaxAddr == 2
\* Datagrams received in one behaviour of Spec.
MaxPackets == 3
\* Datagrams received in one behaviour of SpecPairing.
MaxPairingPackets == 5
\* Datagrams received in one behaviour of SpecInit.
MaxInitPackets == 3
\* Goroutines of handleConnection between their registry section and the
\* session lock at one time.
MaxInFlight == 1
\* Largest step of the clock, in seconds.
MaxTick == 15

ClientIndices == 1..MaxIndex
Cookies == 1..MaxCookie
SessionIds == 1..MaxSessions
Versions == {2, 3}
GameNames == {"mkwii", "mariokartds"}

\* A UDP source address (net.Addr): the n-th address has its own IP and port.
Addrs == {[ip |-> n, port |-> n + n] : n \in 1..MaxAddr}

\* The empty string of the address fields.
NoAddr == <<>>

\* addr.String(): "ip:port".
AddrString(addr) == <<addr.ip, addr.port>>

\* net.ResolveUDPAddr("udp", s) of a string produced by addr.String().
ResolveUDPAddr(s) == [ip |-> s[1], port |-> s[2]]

\* common.IPFormatBytes(s): the four address bytes of "ip:port".
IPFormatBytes(s) == s[1]

\* common.IPFormatToInt(s): the port of "ip:port" (its second result).
IPFormatToIntPort(s) == s[2]

\* fmt.Sprintf("%d.%d.%d.%d:%d", localIPBytes..., localPort)
LocalIPStr(localIPBytes, localPort) == <<localIPBytes, localPort>>

(***************************************************************************)
(* Packets the server writes: conn.WriteTo(bytes, to).                     *)
(***************************************************************************)
createPacket(to, version, command, cookie, payload) ==
    [to |-> to, version |-> version, command |-> command, cookie |-> cookie,
     payload |-> payload]

NoPackets == EmptyBag

(***************************************************************************)
(* NATNEGClient                                                            *)
(***************************************************************************)
NewClient(cookie, clientIndex) ==
    [Cookie |-> cookie, Index |-> clientIndex, ConnectingIndex |-> clientIndex,
     ConnectAck |-> FALSE, Connected |-> {}, NegotiateIP |-> NoAddr,
     LocalIP |-> NoAddr, ServerIP |-> NoAddr, GameName |-> ""]

isMapped(client) ==
    ~(client.NegotiateIP = NoAddr \/ client.ServerIP = NoAddr)

isIdle(client) == client.ConnectingIndex = client.Index

(***************************************************************************)
(* NATNEGSession                                                           *)
(***************************************************************************)
NoClients == <<>>

NewSession(version, cookie) ==
    [Open |-> TRUE, Version |-> version, Cookie |-> cookie, Clients |-> NoClients]

\* A session object that was not allocated yet.
NoSession == [Open |-> FALSE, Version |-> 0, Cookie |-> 0, Clients |-> NoClients]

(***************************************************************************)
(* Pairing engine: sendConnectRequests.  The code ranges over a Go map, so *)
(* the order of both loops is arbitrary; the engine yields the set of all  *)
(* outcomes, one per iteration order.  An outcome is the clients after the *)
(* call and the bag of <<sender, destination>> retry goroutines started.   *)
(***************************************************************************)
\* A mutant of Eligible: only clients without any connection are paired.
EligibleFresh(clients, id, destID) ==
    ~(\/ id = destID
      \/ ~isMapped(clients[destID])
      \/ clients[destID].ConnectingIndex # destID
      \/ clients[destID].Connected # {}
      \/ clients[id].Connected # {})

\* The inner loop's test of a destination for the sender id: the negation of
\* the "continue" condition.
Eligible(clients, id, destID) ==
    ~(\/ id = destID
      \/ ~isMapped(clients[destID])
      \/ clients[destID].ConnectingIndex # destID
      \/ id \in clients[destID].Connected)

\* The four assignments that pair the sender id with destID.
Pair(clients, id, destID) ==
    [clients EXCEPT ![id].ConnectingIndex = destID,
                    ![id].ConnectAck = FALSE,
                    ![destID].ConnectingIndex = id,
                    ![destID].ConnectAck = FALSE]

\* The outer loop's test of a sender: the negation of its "continue".
SenderReady(clients, id) ==
    ~(~isMapped(clients[id]) \/ clients[id].ConnectingIndex # id)

RECURSIVE InnerLoop(_, _, _, _)
InnerLoop(clients, id, todo, spawned) ==
    IF todo = {}
    THEN {[clients |-> clients, spawned |-> spawned]}
    ELSE UNION {
           IF Eligible(clients, id, destID)
           THEN InnerLoop(Pair(clients, id, destID), id, todo \ {destID},
                          spawned (+) SetToBag({<<id, destID>>}))
           ELSE InnerLoop(clients, id, todo \ {destID}, spawned)
           : destID \in todo }

RECURSIVE OuterLoop(_, _, _)
OuterLoop(clients, todo, spawned) ==
    IF todo = {}
    THEN {[clients |-> clients, spawned |-> spawned]}
    ELSE UNION {
           IF SenderReady(clients, id)
           THEN UNION { OuterLoop(r.clients, todo \ {id}, r.spawned)
                        : r \in InnerLoop(clients, id, DOMAIN clients, spawned) }
           ELSE OuterLoop(clients, todo \ {id}, spawned)
           : id \in todo }

sendConnectRequests(clients) == OuterLoop(clients, DOMAIN clients, EmptyBag)

(***************************************************************************)
(* Command handlers, as the set of their outcomes on one session.  An      *)
(* outcome: the session afterwards, the retry goroutines started, the      *)
(* packets written, whether the pairing engine ran, whether the goroutine  *)
(* panicked.                                                               *)
(***************************************************************************)
Outcome(session, spawned, packets, engine, panic) ==
    [session |-> session, spawned |-> spawned, out |-> packets,
     engine |-> engine, panic |-> panic]

\* The outcomes of running the pairing engine on a session.
WithEngine(session, packets) ==
    { Outcome([session EXCEPT !.Clients = r.clients], r.spawned, packets, TRUE, FALSE)
      : r \in sendConnectRequests(session.Clients) }

\* handleInit's field validation (the three early returns after parsing).
InitFieldsValid(p) ==
    ~(\/ p.portType > PortTypeNATNEG3
      \/ p.useGamePort > 1
      \/ (p.useGamePort = 0 /\ p.portType = PortTypeGamePort))

\* handleInit's acknowledgement.
InitAck(session, addr, p, version) ==
    createPacket(addr, version, NNInitReply, session.Cookie,
                 <<p.portType, p.clientIndex>>)

\* A mutant of GameNameMatches: a new client index is registered whatever its
\* game name.
GameNameUnchecked(session, gameName) == TRUE

\* The game name check made before a new client index is registered.
GameNameMatches(session, gameName) ==
    \A i \in DOMAIN session.Clients : session.Clients[i].GameName = gameName

\* A mutant of InitAddresses: a field the packet does not select is cleared.
InitAddressesClearing(sender, addr, p) ==
    [sender EXCEPT
       !.GameName = p.gameName,
       !.NegotiateIP = IF p.portType # PortTypeGamePort THEN AddrString(addr) ELSE NoAddr,
       !.LocalIP = IF p.localPort # 0 THEN LocalIPStr(p.localIPBytes, p.localPort) ELSE @,
       !.ServerIP = IF p.useGamePort = 0 \/ p.portType = PortTypeGamePort
                    THEN AddrString(addr) ELSE @]

\* A mutant of InitAddresses: the local address is stored whatever the port.
InitAddressesLocalAlways(sender, addr, p) ==
    [sender EXCEPT
       !.GameName = p.gameName,
       !.NegotiateIP = IF p.portType # PortTypeGamePort THEN AddrString(addr) ELSE @,
       !.LocalIP = LocalIPStr(p.localIPBytes, p.localPort),
       !.ServerIP = IF p.useGamePort = 0 \/ p.portType = PortTypeGamePort
                    THEN AddrString(addr) ELSE @]

\* The assignments of handleInit to the sender's game name and addresses.
InitAddresses(sender, addr, p) ==
    [sender EXCEPT
       !.GameName = p.gameName,
       !.NegotiateIP = IF p.portType # PortTypeGamePort THEN AddrString(addr) ELSE @,
       !.LocalIP = IF p.localPort # 0 THEN LocalIPStr(p.localIPBytes, p.localPort) ELSE @,
       !.ServerIP = IF p.useGamePort = 0 \/ p.portType = PortTypeGamePort
                    THEN AddrString(addr) ELSE @]

handleInit(session, addr, p, version) ==
    IF ~p.wellFormed \/ ~InitFieldsValid(p)
    THEN {Outcome(session, EmptyBag, NoPackets, FALSE, FALSE)}
    ELSE LET ack == SetToBag({InitAck(session, addr, p, version)})
             exists == p.clientIndex \in DOMAIN session.Clients
         IN IF ~exists /\ ~GameNameMatches(session, p.gameName)
            THEN {Outcome(session, EmptyBag, ack, FALSE, FALSE)}
            ELSE LET sender0 == IF exists THEN session.Clients[p.clientIndex]
                                ELSE NewClient(session.Cookie, p.clientIndex)
                     sender == InitAddresses(sender0, addr, p)
                     s1 == [session EXCEPT !.Clients =
                              (p.clientIndex :> sender) @@ session.Clients]
                 IN IF ~isMapped(sender)
                    THEN {Outcome(s1, EmptyBag, ack, FALSE, FALSE)}
                    ELSE WithEngine(s1, ack)

\* handleConnectReply reads buffer[1]: a payload shorter than 2 bytes panics.
handleConnectReply(session, p) ==
    IF p.size < 2
    THEN {Outcome(session, EmptyBag, NoPackets, FALSE, TRUE)}
    ELSE IF p.clientIndex \in DOMAIN session.Clients
         THEN {Outcome([session EXCEPT !.Clients[p.clientIndex].ConnectAck = TRUE],
                       EmptyBag, NoPackets, FALSE, FALSE)}
         ELSE {Outcome(session, EmptyBag, NoPackets, FALSE, FALSE)}

\* The Report-Reply: the first bytes of the request with the result zeroed.
\* buffer[:9] reslices within the capacity of the read buffer, so bytes past
\* the payload read as zero.
ReportReply(session, addr, p, version) ==
    createPacket(addr, version, NNReportReply, session.Cookie,
                 <<IF p.size >= 1 THEN p.portType ELSE 0,
                   IF p.size >= 2 THEN p.clientIndex ELSE 0,
                   0>>)

\* A mutant of Rotate: the acknowledgement flag is left as it is.
RotateKeepAck(client, clientIndex) ==
    [client EXCEPT !.Connected = @ \cup {client.ConnectingIndex},
                   !.ConnectingIndex = clientIndex]

\* The rotation of the reporting client.
Rotate(client, clientIndex) ==
    [client EXCEPT !.Connected = @ \cup {client.ConnectingIndex},
                   !.ConnectingIndex = clientIndex,
                   !.ConnectAck = FALSE]

\* handleReport's state after the rotation and before the engine runs.
Rotated(session, p) ==
    IF p.clientIndex \in DOMAIN session.Clients
    THEN [session EXCEPT !.Clients[p.clientIndex] = Rotate(@, p.clientIndex)]
    ELSE session

\* handleReport writes its reply, then reads buffer[1] and buffer[2]: a payload
\* shorter than 3 bytes panics after the reply was written.
handleReport(session, addr, p, version) ==
    LET reply == SetToBag({ReportReply(session, addr, p, version)})
    IN IF p.size < 3
       THEN {Outcome(session, EmptyBag, reply, FALSE, TRUE)}
       ELSE WithEngine(Rotated(session, p), reply)

(***************************************************************************)
(* A retry goroutine's round and the packet it sends.                      *)
(***************************************************************************)
\* A mutant of ConnectRequestDest: the request goes to the address the
\* destination advertises for the connection itself.
ConnectRequestDestServerIP(destination) == ResolveUDPAddr(destination.ServerIP)

\* The address a Connect-Request for the destination is written to.
ConnectRequestDest(destination) == ResolveUDPAddr(destination.NegotiateIP)

\* client.sendConnectRequestPacket(conn, destination, version)
sendConnectRequestPacket(client, destination, version) ==
    createPacket(ConnectRequestDest(destination), version, NNConnectRequest,
                 destination.Cookie,
                 <<IPFormatBytes(client.ServerIP), IPFormatToIntPort(client.ServerIP)>>)

\* A mutant of NeedsSend: the acknowledgement flag of the other client is read.
NeedsSendSenderAck(sender, destination) ==
    ~sender.ConnectAck /\ destination.ConnectingIndex = sender.Index

\* A mutant of NeedsSend: the round sends whatever the clients' state.
NeedsSendAlways(sender, destination) == TRUE

\* Whether the round sends to `destination` a request naming `sender`.
NeedsSend(sender, destination) ==
    ~destination.ConnectAck /\ destination.ConnectingIndex = sender.Index

\* The packets of one round of the goroutine for (sender, destination).
RoundPackets(session, sender, destination) ==
    (IF NeedsSend(sender, destination)
     THEN SetToBag({sendConnectRequestPacket(sender, destination, session.Version)})
     ELSE EmptyBag)
    (+)
    (IF NeedsSend(destination, sender)
     THEN SetToBag({sendConnectRequestPacket(destination, sender, session.Version)})
     ELSE EmptyBag)

(***************************************************************************)
(* The expiry callback's cancellation packets.                             *)
(***************************************************************************)
\* The address the forced Report-Reply for a client is written to: the
\* callback writes to addr, the source of the packet that created the session.
CancelDest(client, addr) == addr

CancelPacket(session, client, addr, version) ==
    createPacket(CancelDest(client, addr), version, NNReportReply, session.Cookie,
                 <<0, client.Index, 0>>)

\* Whether the callback's loop sends a cancellation for the client.
NeedsCancel(client) == ~(client.ConnectingIndex = client.Index)

RECURSIVE CancelPackets(_, _, _, _)
CancelPackets(session, todo, addr, version) ==
    IF todo = {} THEN EmptyBag
    ELSE LET i == CHOOSE x \in todo : TRUE
             rest == CancelPackets(session, todo \ {i}, addr, version)
         IN IF NeedsCancel(session.Clients[i])
            THEN rest (+) SetToBag({CancelPacket(session, session.Clients[i], addr, version)})
            ELSE rest

(***************************************************************************)
(* State.                                                                  *)
(***************************************************************************)
VARIABLES
    sessions,   \* the registry: cookie -> session object (0: no entry)
    sess,       \* the session objects: Open, Version, Cookie, Clients
    timer,      \* per session object, its expiry timer and callback closure
    pending,    \* bag of handleConnection goroutines waiting for the session lock
    tasks,      \* bag of running retry goroutines (session, sender, destination)
    out,        \* bag of the packets written by the last step
    last,       \* what the last step was
    npkts,      \* datagrams received so far
    crashed     \* the process died of an unrecovered panic

vars == <<sessions, sess, timer, pending, tasks, out, last, npkts, crashed>>

NoTimer == [pc |-> "none", age |-> 0, addr |-> [ip |-> 0, port |-> 0], version |-> 0]

NoStep == [op |-> "none", session |-> 0, command |-> 0, index |-> 0, peer |-> 0,
           portType |-> 0, useGamePort |-> 0, accepted |-> FALSE, engine |-> FALSE,
           addr |-> [ip |-> 0, port |-> 0], localPort |-> 0, gameName |-> "",
           valid |-> FALSE, size |-> 0]

Step(op, session, command) ==
    [NoStep EXCEPT !.op = op, !.session = session, !.command = command]

Init ==
    /\ sessions = [c \in Cookies |-> 0]
    /\ sess = [s \in SessionIds |-> NoSession]
    /\ timer = [s \in SessionIds |-> NoTimer]
    /\ pending = EmptyBag
    /\ tasks = EmptyBag
    /\ out = NoPackets
    /\ last = NoStep
    /\ npkts = 0
    /\ crashed = FALSE

\* A mutant of IsSessionCommand: only the natify probe bypasses the registry.
IsSessionCommandButNatify(command) == command # NNNatifyRequest

\* The commands that go through the session registry.
IsSessionCommand(command) ==
    command # NNNatifyRequest /\ command # NNAddressCheckRequest

\* A mutant of VersionMatches: the version is not compared.
VersionIgnored(session, version) == TRUE

\* The dispatch's version test on the session found or created.
VersionMatches(session, version) == ~(session.Version # version)

Allocated(s) == timer[s].pc # "none"

FreeSessionIds == {s \in SessionIds : ~Allocated(s)}

\* The timer armed at creation: its closure keeps the creating packet's
\* version and source address.
ArmTimer(version, addr) ==
    [pc |-> "armed", age |-> 0, addr |-> addr, version |-> version]

Goroutine(command, version, cookie, addr, s) ==
    [command |-> command, version |-> version, cookie |-> cookie, addr |-> addr,
     session |-> s]

(***************************************************************************)
(* handleConnection up to the session lock: header parsed, registry        *)
(* lookup-or-create under the registry mutex, version test.                *)
(***************************************************************************)
ReceiveProbe(command, version, cookie, addr) ==
    /\ ~IsSessionCommand(command)
    /\ last' = Step("Probe", 0, command)
    /\ UNCHANGED <<sessions, sess, timer, pending>>

ReceiveCreate(command, version, cookie, addr) ==
    /\ IsSessionCommand(command)
    /\ sessions[cookie] = 0
    /\ FreeSessionIds # {}
    /\ LET s == CHOOSE x \in FreeSessionIds : \A y \in FreeSessionIds : x <= y
       IN /\ sess' = [sess EXCEPT ![s] = NewSession(version, cookie)]
          /\ sessions' = [sessions EXCEPT ![cookie] = s]
          /\ timer' = [timer EXCEPT ![s] = ArmTimer(version, addr)]
          /\ pending' = pending (+) SetToBag({Goroutine(command, version, cookie, addr, s)})
          /\ last' = [Step("Create", s, command) EXCEPT !.accepted = TRUE]

ReceiveExisting(command, version, cookie, addr) ==
    /\ IsSessionCommand(command)
    /\ sessions[cookie] # 0
    /\ LET s == sessions[cookie]
       IN IF VersionMatches(sess[s], version)
          THEN /\ pending' = pending (+) SetToBag({Goroutine(command, version, cookie, addr, s)})
               /\ last' = [Step("Lookup", s, command) EXCEPT !.accepted = TRUE]
          ELSE /\ pending' = pending
               /\ last' = Step("Lookup", s, command)
    /\ UNCHANGED <<sessions, sess, timer>>

Receive(env) ==
    /\ ~crashed
    /\ npkts < env.maxPackets
    /\ BagCardinality(pending) < MaxInFlight
    /\ \E command \in env.commands, version \in env.versions,
          cookie \in env.cookies, addr \in env.addrs :
          \/ ReceiveProbe(command, version, cookie, addr)
          \/ ReceiveCreate(command, version, cookie, addr)
          \/ ReceiveExisting(command, version, cookie, addr)
    /\ npkts' = npkts + 1
    /\ out' = NoPackets
    /\ UNCHANGED <<tasks, crashed>>

(***************************************************************************)
(* handleConnection under the session lock: the command handler.           *)
(***************************************************************************)
TaskOf(s, pair) == [session |-> s, sender |-> pair[1], destination |-> pair[2]]

TasksOf(s, spawned) ==
    LET F(pair) == TaskOf(s, pair) IN BagOfAll(F, spawned)

\* Apply a handler's outcome r to the session object g.session.
Apply(g, r, step) ==
    /\ sess' = [sess EXCEPT ![g.session] = r.session]
    /\ tasks' = tasks (+) TasksOf(g.session, r.spawned)
    /\ out' = r.out
    /\ crashed' = r.panic
    /\ last' = [step EXCEPT !.engine = r.engine]

HandleInit(env, g) ==
    /\ g.command = NNInitRequest
    /\ \E p \in env.inits :
         \E r \in handleInit(sess[g.session], g.addr, p, g.version) :
            Apply(g, r, [Step("Init", g.session, g.command) EXCEPT
                           !.index = p.clientIndex,
                           !.portType = p.portType,
                           !.useGamePort = p.useGamePort,
                           !.addr = g.addr,
                           !.localPort = p.localPort,
                           !.gameName = p.gameName,
                           !.valid = p.wellFormed /\ InitFieldsValid(p),
                           !.accepted = /\ p.clientIndex \in DOMAIN r.session.Clients
                                        /\ r.out # NoPackets])

HandleConnectReply(env, g) ==
    /\ g.command = NNConnectReply
    /\ \E p \in env.replies :
         \E r \in handleConnectReply(sess[g.session], p) :
            Apply(g, r, [Step("ConnectReply", g.session, g.command) EXCEPT
                           !.index = p.clientIndex,
                           !.size = p.size,
                           !.accepted = p.clientIndex \in DOMAIN sess[g.session].Clients])

HandleReport(env, g) ==
    /\ g.command = NNReportRequest
    /\ \E p \in env.reports :
         /\ env.reporters = "paired" =>
               /\ p.clientIndex \in DOMAIN sess[g.session].Clients
               /\ ~isIdle(sess[g.session].Clients[p.clientIndex])
         /\ \E r \in handleReport(sess[g.session], g.addr, p, g.version) :
              Apply(g, r, [Step("Report", g.session, g.command) EXCEPT
                             !.index = p.clientIndex,
                             !.size = p.size,
                             !.accepted = p.clientIndex \in DOMAIN sess[g.session].Clients])

\* Every other command is logged only.
HandleOther(env, g) ==
    /\ g.command \notin {NNInitRequest, NNConnectReply, NNReportRequest}
    /\ last' = Step("Other", g.session, g.command)
    /\ out' = NoPackets
    /\ UNCHANGED <<sess, tasks, crashed>>

Handle(env) ==
    /\ ~crashed
    /\ \E g \in BagToSet(pending) :
         /\ pending' = pending (-) SetToBag({g})
         /\ \/ HandleInit(env, g)
            \/ HandleConnectReply(env, g)
            \/ HandleReport(env, g)
            \/ HandleOther(env, g)
    /\ UNCHANGED <<sessions, timer, npkts>>

(***************************************************************************)
(* One round of a retry goroutine: from the test of session.Open to the    *)
(* sleep of 500 ms (or to the goroutine's return).                         *)
(***************************************************************************)
RetryRound ==
    /\ ~crashed
    /\ \E t \in BagToSet(tasks) :
         LET session == sess[t.session]
             sender == session.Clients[t.sender]
             destination == session.Clients[t.destination]
             packets == RoundPackets(session, sender, destination)
         IN /\ IF ~session.Open
               THEN /\ tasks' = tasks (-) SetToBag({t})
                    /\ out' = NoPackets
               ELSE /\ tasks' = IF packets = EmptyBag
                                THEN tasks (-) SetToBag({t}) ELSE tasks
                    /\ out' = packets
            /\ last' = [Step("RetryRound", t.session, NNConnectRequest) EXCEPT
                          !.index = t.sender, !.peer = t.destination]
    /\ UNCHANGED <<sessions, sess, timer, pending, npkts, crashed>>

(***************************************************************************)
(* Time and the expiry callback.  The clock advances by at most MaxTick    *)
(* seconds and never past the deadline of an armed timer: a timer fires    *)
(* when its 30 seconds have passed.                                        *)
(***************************************************************************)
Armed == {s \in SessionIds : timer[s].pc = "armed"}

Min(a, b) == IF a <= b THEN a ELSE b

\* Seconds until the next deadline.
NextDeadline == CHOOSE d \in 0..TTL :
                  /\ \E s \in Armed : timer[s].age + d = TTL
                  /\ \A s \in Armed : timer[s].age + d <= TTL

Tick ==
    /\ ~crashed
    /\ Armed # {}
    /\ NextDeadline > 0
    /\ LET d == Min(MaxTick, NextDeadline)
       IN timer' = [s \in SessionIds |->
                      IF s \in Armed THEN [timer[s] EXCEPT !.age = @ + d] ELSE timer[s]]
    /\ last' = Step("Tick", 0, 0)
    /\ out' = NoPackets
    /\ UNCHANGED <<sessions, sess, pending, tasks, npkts, crashed>>

\* A mutant of TimerDue: the timer fires at any time after it was armed.
TimerDueEarly(t) == t.age >= 0

\* time.AfterFunc(30*time.Second, ...): the timer fires 30 seconds after it
\* was armed.
TimerDue(t) == t.age = TTL

\* The callback starts: session.Open = false, before any lock is taken.
ExpiryFire(s) ==
    /\ ~crashed
    /\ timer[s].pc = "armed"
    /\ TimerDue(timer[s])
    /\ sess' = [sess EXCEPT ![s].Open = FALSE]
    /\ timer' = [timer EXCEPT ![s].pc = "fired"]
    /\ last' = Step("ExpiryFire", s, 0)
    /\ out' = NoPackets
    /\ UNCHANGED <<sessions, pending, tasks, npkts, crashed>>

\* delete(sessions, cookie) under the registry mutex.
ExpiryDelete(s) ==
    /\ ~crashed
    /\ timer[s].pc = "fired"
    /\ sessions' = [sessions EXCEPT ![sess[s].Cookie] = 0]
    /\ timer' = [timer EXCEPT ![s].pc = "deleted"]
    /\ last' = Step("ExpiryDelete", s, 0)
    /\ out' = NoPackets
    /\ UNCHANGED <<sess, pending, tasks, npkts, crashed>>

\* The loop over the clients under the session lock.
ExpiryCancel(s) ==
    /\ ~crashed
    /\ timer[s].pc = "deleted"
    /\ out' = CancelPackets(sess[s], DOMAIN sess[s].Clients, timer[s].addr,
                            timer[s].version)
    /\ timer' = [timer EXCEPT ![s].pc = "done"]
    /\ last' = Step("ExpiryCancel", s, NNReportReply)
    /\ UNCHANGED <<sessions, sess, pending, tasks, npkts, crashed>>

Expiry == \E s \in SessionIds : ExpiryFire(s) \/ ExpiryDelete(s) \/ ExpiryCancel(s)

(***************************************************************************)
(* Inputs.                                                                 *)
(***************************************************************************)
InitPayloads(indices, portTypes, useGamePorts, localPorts, names, wellFormed) ==
    [wellFormed : wellFormed, portType : portTypes, clientIndex : indices,
     useGamePort : useGamePorts, localIPBytes : {1}, localPort : localPorts,
     gameName : names]

IndexPayloads(indices, sizes) ==
    [size : sizes, portType : {PortTypeNATNEG1}, clientIndex : indices]

\* Every command, version and cookie, few packets.
FullEnv ==
    [commands |-> {NNInitRequest, NNConnectReply, NNReportRequest, NNNatifyRequest,
                   NNAddressCheckRequest, NNUnknownCommand},
     versions |-> Versions,
     cookies |-> Cookies,
     addrs |-> Addrs,
     inits |-> InitPayloads(1..2, {PortTypeGamePort, PortTypeNATNEG1}, 0..1, {0},
                            {"mkwii"}, {TRUE}),
     replies |-> IndexPayloads(1..2, {0, 2}),
     reports |-> IndexPayloads(1..2, {0, 11}),
     reporters |-> "any",
     maxPackets |-> MaxPackets]

Next == Receive(FullEnv) \/ Handle(FullEnv) \/ RetryRound \/ Tick \/ Expiry

Spec == Init /\ [][Next]_vars

\* One cookie, one version, one source address, every client index, Init
\* packets that map their sender at once: the pairing and rotation of up to
\* MaxIndex clients, to a depth of MaxPairingPackets packets.
PairingEnv ==
    [commands |-> {NNInitRequest, NNConnectReply, NNReportRequest},
     versions |-> {3},
     cookies |-> {1},
     addrs |-> {a \in Addrs : a.ip = 1},
     inits |-> InitPayloads(ClientIndices, {PortTypeNATNEG1}, {0}, {0},
                            {"mkwii"}, {TRUE}),
     replies |-> IndexPayloads(ClientIndices, {2}),
     reports |-> IndexPayloads(ClientIndices, {11}),
     reporters |-> "any",
     maxPackets |-> MaxPairingPackets]

\* One cookie and version, Init packets of every field combination from
\* every source address, to a depth of MaxInitPackets packets.
InitEnv ==
    [commands |-> {NNInitRequest},
     versions |-> {3},
     cookies |-> {1},
     addrs |-> Addrs,
     inits |-> InitPayloads(1..2, {PortTypeGamePort, PortTypeNATNEG1, PortTypeNATNEG3,
                                   PortTypeNATNEG3 + 1},
                            0..2, 0..1, GameNames, BOOLEAN),
     replies |-> IndexPayloads({}, {2}),
     reports |-> IndexPayloads({}, {11}),
     reporters |-> "any",
     maxPackets |-> MaxInitPackets]

NextInit == Receive(InitEnv) \/ Handle(InitEnv) \/ RetryRound

SpecInit == Init /\ [][NextInit]_vars

NextPairing == Receive(PairingEnv) \/ Handle(PairingEnv) \/ RetryRound \/ Tick \/ Expiry

SpecPairing == Init /\ [][NextPairing]_vars

(***************************************************************************)
(* Claims.                                                                 *)
(***************************************************************************)
InRegistry(s) == Allocated(s) /\ sessions[sess[s].Cookie] = s

PacketOps == {"Probe", "Create", "Lookup", "Init", "ConnectReply", "Report", "Other"}

\* C1: a session is in the registry from its creation until its own expiry
\* callback removes it, which happens once, when 30 seconds have passed since
\* the creation; no step that receives or handles a packet removes a session,
\* changes the timer of an existing session or the time it has run.
C1_RemovedOnceAtTTL ==
    /\ [](\A s \in SessionIds :
            /\ Allocated(s) => (InRegistry(s) <=> timer[s].pc \in {"armed", "fired"})
            /\ timer[s].pc \in {"fired", "deleted", "done"} => timer[s].age = TTL
            /\ timer[s].age <= TTL)
    /\ [][\A s \in SessionIds :
            /\ (InRegistry(s) /\ ~InRegistry(s)') =>
                  /\ last'.op = "ExpiryDelete" /\ last'.session = s
                  /\ timer[s].age = TTL
            /\ (Allocated(s) /\ ~InRegistry(s)) => ~InRegistry(s)'
            /\ (Allocated(s) /\ last'.op \in PacketOps) => timer'[s] = timer[s]
            /\ Allocated(s) => timer'[s].age >= timer[s].age]_vars

\* C1 witness: a session that received packets (it has a client and a retry
\* goroutine was started for it) has just been removed by its callback.
C1_Witness ==
    /\ last.op = "ExpiryDelete"
    /\ ~InRegistry(last.session)
    /\ timer[last.session].age = TTL
    /\ sess[last.session].Clients # NoClients
    /\ npkts >= 2

\* The number of forced Report-Reply packets in `packets` that name the
\* client and are written to its signalling address.
CancellationsTo(packets, client) ==
    IF client.NegotiateIP = NoAddr THEN 0
    ELSE LET to == [ip |-> client.NegotiateIP[1], port |-> client.NegotiateIP[2]]
             mine == {k \in BagToSet(packets) :
                        /\ k.command = NNReportReply
                        /\ k.to = to
                        /\ k.payload[2] = client.Index}
         IN BagCardinality([k \in mine |-> packets[k]])

\* C2 (as claimed): when the expiry callback has sent its cancellations, each
\* client of the session that was mid-negotiation has exactly one addressed
\* to it and each idle client has none.
C2_EachMidClientCancelled ==
    last.op = "ExpiryCancel" =>
      \A i \in DOMAIN sess[last.session].Clients :
         LET client == sess[last.session].Clients[i]
         IN CancellationsTo(out, client) = IF client.ConnectingIndex # client.Index
                                          THEN 1 ELSE 0

\* C3: every Connect-Request written is written by a round of a retry
\* goroutine for a pair of clients, to the signalling address (negotiateIP) of
\* one client of the pair, and carries the address and port of the serverIP
\* of the other client of the pair.
C3_ConnectRequestAddressing ==
    \A k \in BagToSet(out) :
       k.command = NNConnectRequest =>
         /\ last.op = "RetryRound"
         /\ LET clients == sess[last.session].Clients
            IN \E receiver, other \in {last.index, last.peer} :
                  /\ receiver # other
                  /\ clients[receiver].NegotiateIP # NoAddr
                  /\ k.to.ip = clients[receiver].NegotiateIP[1]
                  /\ k.to.port = clients[receiver].NegotiateIP[2]
                  /\ k.payload = clients[other].ServerIP
                  /\ k.cookie = sess[last.session].Cookie

\* C3 witness: a round has sent a Connect-Request to a client whose
\* negotiateIP and serverIP differ.
C3_Witness ==
    /\ last.op = "RetryRound"
    /\ \E k \in BagToSet(out) :
         /\ k.command = NNConnectRequest
         /\ \E i \in {last.index, last.peer} :
              LET client == sess[last.session].Clients[i]
              IN /\ client.NegotiateIP # client.ServerIP
                 /\ k.to.ip = client.NegotiateIP[1]
                 /\ k.to.port = client.NegotiateIP[2]

\* Mapped and idle, spelled out on the fields.
Candidate(client) ==
    /\ client.NegotiateIP # NoAddr
    /\ client.ServerIP # NoAddr
    /\ client.ConnectingIndex = client.Index

Unconnected(a, b) == b.Index \notin a.Connected /\ a.Index \notin b.Connected

\* The clients of session s that are idle when the engine is entered by the
\* step that leads from the current state to the next one: those idle before
\* the step, a client the Init creates, and the client the Report rotates.
IdleAtEntry(s) ==
    {i \in DOMAIN sess'[s].Clients :
        \/ i \notin DOMAIN sess[s].Clients
        \/ sess[s].Clients[i].ConnectingIndex = i
        \/ (last'.op = "Report" /\ last'.index = i)}

\* C4: after every run of the pairing engine no two distinct clients of the
\* session are both idle and mapped with neither recording the other as
\* connected; and when exactly two clients were idle and mapped at the
\* engine's entry, neither recording the other, the two are paired with each
\* other afterwards.
C4_EnginePairsAllCandidates ==
    /\ [](last.engine =>
            \A i, j \in DOMAIN sess[last.session].Clients :
               LET a == sess[last.session].Clients[i]
                   b == sess[last.session].Clients[j]
               IN i # j => ~(Candidate(a) /\ Candidate(b) /\ Unconnected(a, b)))
    /\ [][last'.engine =>
            LET clients == sess'[last'.session].Clients
                ready == {i \in IdleAtEntry(last'.session) :
                            /\ clients[i].NegotiateIP # NoAddr
                            /\ clients[i].ServerIP # NoAddr}
            IN \A i, j \in ready :
                 (i # j /\ ready = {i, j} /\ Unconnected(clients[i], clients[j])) =>
                    /\ clients[i].ConnectingIndex = j
                    /\ clients[j].ConnectingIndex = i]_vars

\* C4 witness: three mapped clients; the engine, run by a Report, has just
\* paired the reporting client with the third one.
C4_Witness ==
    /\ last.op = "Report" /\ last.engine
    /\ LET clients == sess[last.session].Clients
       IN /\ Cardinality(DOMAIN clients) = 3
          /\ \A i \in DOMAIN clients : isMapped(clients[i])
          /\ clients[last.index].Connected # {}
          /\ clients[last.index].ConnectingIndex # last.index
          /\ clients[last.index].ConnectingIndex \notin clients[last.index].Connected

\* C5: a Report that names an existing client X adds the index X was
\* targeting to X.Connected and leaves X idle with connectAck = FALSE when the
\* pairing engine starts: the clients after the handler are an outcome of the
\* engine on that state.  X is then a candidate of the engine: it stays idle
\* only if no idle mapped peer is left that is not recorded as connected.
C5_ReportRotatesThenPairs ==
    [][(last'.op = "Report" /\ last'.accepted /\ ~crashed') =>
         LET s == last'.session
             X == last'.index
             before == sess[s].Clients
             after == sess'[s].Clients
             rotated == [before EXCEPT
                           ![X] = [Cookie |-> before[X].Cookie,
                                   Index |-> before[X].Index,
                                   ConnectingIndex |-> X,
                                   ConnectAck |-> FALSE,
                                   Connected |-> before[X].Connected
                                                   \cup {before[X].ConnectingIndex},
                                   NegotiateIP |-> before[X].NegotiateIP,
                                   LocalIP |-> before[X].LocalIP,
                                   ServerIP |-> before[X].ServerIP,
                                   GameName |-> before[X].GameName]]
         IN /\ after[X].Connected = before[X].Connected \cup {before[X].ConnectingIndex}
            /\ last'.engine
            /\ after \in {r.clients : r \in sendConnectRequests(rotated)}
            /\ (Candidate(after[X]) =>
                  \A j \in DOMAIN after \ {X} :
                     ~(Candidate(after[j]) /\ Unconnected(after[X], after[j])))
            /\ (after[X].ConnectingIndex # X =>
                  /\ after[X].ConnectingIndex \in DOMAIN before \ {X}
                  /\ before[after[X].ConnectingIndex].ConnectingIndex
                       = after[X].ConnectingIndex
                  /\ isMapped(before[after[X].ConnectingIndex])
                  /\ ~after[X].ConnectAck)]_vars

\* C5 witness: the Report of a client that was targeting a peer has been
\* handled; the peer is recorded and the client is idle, not acknowledged.
C5_Witness ==
    /\ last.op = "Report" /\ last.accepted /\ last.engine
    /\ LET X == sess[last.session].Clients[last.index]
       IN /\ X.ConnectingIndex = X.Index
          /\ ~X.ConnectAck
          /\ \E j \in X.Connected : j # X.Index

\* C5 witness of the re-pairing: the reporting client has a recorded peer and
\* was paired by the engine with another one.
C5_WitnessRepaired ==
    /\ last.op = "Report" /\ last.accepted /\ last.engine
    /\ LET X == sess[last.session].Clients[last.index]
       IN /\ X.ConnectingIndex # X.Index
          /\ X.Connected \ {X.Index, X.ConnectingIndex} # {}

\* C6 (as claimed): a Report from a client X that is idle and has a peer
\* recorded (every pairing X took part in is recorded already, so the Report
\* re-applies an earlier one) leaves the connected set of every client of the
\* session as it was.
C6_DuplicateReportIdempotent ==
    [][(/\ last'.op = "Report" /\ last'.accepted /\ ~crashed'
        /\ sess[last'.session].Clients[last'.index].ConnectingIndex = last'.index
        /\ sess[last'.session].Clients[last'.index].Connected # {}) =>
         \A i \in DOMAIN sess[last'.session].Clients :
            sess'[last'.session].Clients[i].Connected
               = sess[last'.session].Clients[i].Connected]_vars

(***************************************************************************)
(* The rotation of one session that stays open: each client index joins    *)
(* with one Init that maps it, and a client sends a Report only while it   *)
(* is paired, one for each pairing.                                        *)
(***************************************************************************)
RotationClients ==
    IF sessions[1] = 0 THEN NoClients ELSE sess[sessions[1]].Clients

Unjoined == ClientIndices \ DOMAIN RotationClients

Paired == {i \in DOMAIN RotationClients : ~isIdle(RotationClients[i])}

PendingOf(command) ==
    LET waiting == {g \in BagToSet(pending) : g.command = command}
    IN BagCardinality([g \in waiting |-> pending[g]])

RotationEnv ==
    [commands |-> {c \in {NNInitRequest} : PendingOf(c) < Cardinality(Unjoined)}
                  \cup {c \in {NNReportRequest} : PendingOf(c) < Cardinality(Paired)},
     versions |-> {3},
     cookies |-> {1},
     addrs |-> {a \in Addrs : a.ip = 1},
     inits |-> InitPayloads(Unjoined, {PortTypeNATNEG1}, {0}, {0}, {"mkwii"}, {TRUE}),
     replies |-> IndexPayloads({}, {2}),
     reports |-> IndexPayloads(Paired, {11}),
     reporters |-> "paired",
     maxPackets |-> 4 * MaxIndex * MaxIndex]

NextRotation == Receive(RotationEnv) \/ Handle(RotationEnv) \/ RetryRound

\* Every datagram a client sends is received, every goroutine gets the
\* session lock: a paired client's Report is handled eventually.
SpecRotation ==
    /\ Init
    /\ [][NextRotation]_vars
    /\ WF_vars(Receive(RotationEnv))
    /\ WF_vars(Handle(RotationEnv))

AllConnected ==
    /\ DOMAIN RotationClients = ClientIndices
    /\ \A i \in ClientIndices :
         /\ isMapped(RotationClients[i])
         /\ RotationClients[i].ConnectingIndex = i
         /\ \A j \in ClientIndices \ {i} : j \in RotationClients[i].Connected

\* C7: in an open session whose clients all get mapped and report once for
\* each pairing, eventually every two distinct clients record each other as
\* connected and every client is idle.
C7_RotationReachesAllPairs == <>AllConnected

\* C7 witness: the session with all pairs recorded and every client idle.
C7_Witness == AllConnected /\ pending = EmptyBag /\ MaxIndex >= 3

\* C8: a client is mapped exactly when its negotiateIP and its serverIP are
\* both non-empty; either field is empty when the client is created and
\* changes only by an accepted Init that names the client (negotiateIP by one
\* whose portType is not GamePort, serverIP by one with useGamePort = 0 or
\* portType = GamePort), and never back to empty: a mapped client stays mapped.
C8_MappedIffBothSetAndStable ==
    /\ [](\A s \in SessionIds : \A i \in DOMAIN sess[s].Clients :
            isMapped(sess[s].Clients[i]) <=>
               /\ sess[s].Clients[i].NegotiateIP # NoAddr
               /\ sess[s].Clients[i].ServerIP # NoAddr)
    /\ [][\A s \in SessionIds : \A i \in DOMAIN sess'[s].Clients :
            LET after == sess'[s].Clients[i]
                fresh == i \notin DOMAIN sess[s].Clients
                neg == IF fresh THEN NoAddr ELSE sess[s].Clients[i].NegotiateIP
                srv == IF fresh THEN NoAddr ELSE sess[s].Clients[i].ServerIP
                byInit == /\ last'.op = "Init" /\ last'.session = s
                          /\ last'.index = i /\ last'.accepted
            IN /\ DOMAIN sess[s].Clients \subseteq DOMAIN sess'[s].Clients
               /\ neg # NoAddr => after.NegotiateIP # NoAddr
               /\ srv # NoAddr => after.ServerIP # NoAddr
               /\ (neg # NoAddr /\ srv # NoAddr) => isMapped(after)
               /\ after.NegotiateIP # neg =>
                     byInit /\ last'.portType # PortTypeGamePort
               /\ after.ServerIP # srv =>
                     /\ byInit
                     /\ (last'.useGamePort = 0 \/ last'.portType = PortTypeGamePort)
               /\ fresh => byInit]_vars

\* C8 witness: an accepted GamePort Init, which selects only the serverIP, has
\* been handled for a client that is mapped, with a negotiateIP learnt from
\* another address.
C8_Witness ==
    /\ last.op = "Init" /\ last.accepted
    /\ last.portType = PortTypeGamePort
    /\ LET client == sess[last.session].Clients[last.index]
       IN /\ isMapped(client)
          /\ client.NegotiateIP # client.ServerIP

ProbeCommands == {NNNatifyRequest, NNAddressCheckRequest}

\* C9: the step that receives an address-check or natify probe leaves the
\* registry, every session and its clients, the timers, the waiting
\* goroutines and the retry goroutines as they were and writes no packet; no
\* goroutine of a probe ever waits for a session.
C9_ProbesChangeNothing ==
    /\ [](\A g \in BagToSet(pending) : g.command \notin ProbeCommands)
    /\ [][(npkts' = npkts + 1 /\ last'.command \in ProbeCommands) =>
            /\ sessions' = sessions
            /\ sess' = sess
            /\ timer' = timer
            /\ pending' = pending
            /\ tasks' = tasks
            /\ out' = NoPackets]_vars

\* C9 witness: a probe has been received while a session with a client is
\* registered under the cookie.
C9_Witness ==
    /\ last.op = "Probe"
    /\ last.command \in ProbeCommands
    /\ \E s \in SessionIds : InRegistry(s) /\ sess[s].Clients # NoClients

\* C9 witness: a probe received first, for a cookie without a session.
C9_WitnessNoSession ==
    /\ last.op = "Probe"
    /\ last.command = NNAddressCheckRequest
    /\ \A c \in Cookies : sessions[c] = 0
    /\ \A s \in SessionIds : ~Allocated(s)

\* C10: the version of a session is that of the packet that created it and
\* never changes; a goroutine reaches a command handler only with the version
\* of its session, and the step that receives a packet of another version for
\* an existing session writes nothing and changes neither the registry, the
\* sessions, the timers, nor the goroutines.
C10_VersionFixedMismatchDropped ==
    /\ [](\A g \in BagToSet(pending) : sess[g.session].Version = g.version)
    /\ [](\A s \in SessionIds : Allocated(s) => sess[s].Version = timer[s].version)
    /\ [][/\ \A s \in SessionIds :
               Allocated(s) => sess'[s].Version = sess[s].Version
          /\ (last'.op = "Lookup" /\ ~last'.accepted) =>
               /\ sessions' = sessions
               /\ sess' = sess
               /\ timer' = timer
               /\ pending' = pending
               /\ tasks' = tasks
               /\ out' = NoPackets
          /\ (last'.op = "Lookup" /\ last'.accepted) =>
               pending' # pending]_vars

\* C10 witness: a packet for the cookie of a registered session that has a
\* client was dropped for its version.
C10_Witness ==
    /\ last.op = "Lookup" /\ ~last.accepted
    /\ InRegistry(last.session)
    /\ sess[last.session].Clients # NoClients
    /\ pending = EmptyBag

\* The acknowledgement of the Init handled by the last step.
LastInitAck ==
    createPacket(last.addr, sess[last.session].Version, NNInitReply,
                 sess[last.session].Cookie, <<last.portType, last.index>>)

\* C11: an Init that passes the field validation, names a client index that
\* is not in the session and carries a game name other than that of a client
\* of the session is answered with the one acknowledgement that echoes its
\* portType and clientIndex, written to its source address; the client is not
\* added, no session or client changes, the pairing engine is not run and no
\* retry goroutine is started.
C11_GameNameMismatchRejected ==
    [][(/\ last'.op = "Init" /\ last'.valid
        /\ last'.index \notin DOMAIN sess[last'.session].Clients
        /\ \E i \in DOMAIN sess[last'.session].Clients :
              sess[last'.session].Clients[i].GameName # last'.gameName) =>
         /\ out' = SetToBag({LastInitAck'})
         /\ sess' = sess
         /\ sessions' = sessions
         /\ tasks' = tasks
         /\ ~last'.engine
         /\ ~last'.accepted]_vars

\* C11 witness: an Init of a new client index that would have mapped its
\* sender was refused for its game name, in a session that has a mapped client
\* of the other game name; only the acknowledgement was written.
C11_Witness ==
    /\ last.op = "Init" /\ last.valid /\ ~last.accepted
    /\ last.portType # PortTypeGamePort /\ last.useGamePort = 0
    /\ last.index \notin DOMAIN sess[last.session].Clients
    /\ out = SetToBag({LastInitAck})
    /\ \E i \in DOMAIN sess[last.session].Clients :
          /\ sess[last.session].Clients[i].GameName # last.gameName
          /\ isMapped(sess[last.session].Clients[i])

\* C12 (as claimed): all clients of one session have the same game name.
C12_OneGameNamePerSession ==
    \A s \in SessionIds : \A i, j \in DOMAIN sess[s].Clients :
       sess[s].Clients[i].GameName = sess[s].Clients[j].GameName

\* C13 (as claimed): the steps that receive and handle a packet of an
\* unrecognized command leave the registry, the sessions and their clients,
\* the timers and the retry goroutines as they were and write no packet, also
\* when the packet's cookie has no session.
C13_UnknownCommandChangesNothing ==
    [][(last'.op \in PacketOps /\ last'.command = NNUnknownCommand) =>
         /\ sessions' = sessions
         /\ sess' = sess
         /\ timer' = timer
         /\ tasks' = tasks
         /\ out' = NoPackets]_vars

\* C14 (as claimed): the process survives every packet (no goroutine of
\* handleConnection ends in an unrecovered panic, so later packets are
\* received and handled), and no step that receives or handles a packet
\* removes a session from the registry.
C14_NoPacketTearsDown ==
    /\ [](~crashed)
    /\ [][last'.op \in PacketOps =>
            \A s \in SessionIds : InRegistry(s) => InRegistry(s)']_vars

\* The address fields of client i of session s before the step; those of a
\* client the step creates are empty.
AddressesBefore(s, i) ==
    IF i \in DOMAIN sess[s].Clients
    THEN [NegotiateIP |-> sess[s].Clients[i].NegotiateIP,
          LocalIP |-> sess[s].Clients[i].LocalIP,
          ServerIP |-> sess[s].Clients[i].ServerIP]
    ELSE [NegotiateIP |-> NoAddr, LocalIP |-> NoAddr, ServerIP |-> NoAddr]

\* C15: after an accepted Init the named client's negotiateIP is the packet's
\* source address if portType is not GamePort and its previous value
\* otherwise; its serverIP is the source address if useGamePort is 0 or
\* portType is GamePort and its previous value otherwise; its localIP is the
\* reported address (the local IP bytes and the local port) if the local port
\* is not 0 and its previous value otherwise; the address fields of the other
\* clients keep their values.
C15_InitAddressSelection ==
    [][(last'.op = "Init" /\ last'.accepted) =>
         LET s == last'.session
             source == <<last'.addr.ip, last'.addr.port>>
             before == AddressesBefore(s, last'.index)
             after == sess'[s].Clients[last'.index]
         IN /\ after.NegotiateIP = IF last'.portType # PortTypeGamePort
                                   THEN source ELSE before.NegotiateIP
            /\ after.ServerIP = IF last'.useGamePort = 0 \/ last'.portType = PortTypeGamePort
                                THEN source ELSE before.ServerIP
            /\ after.LocalIP = IF last'.localPort # 0
                               THEN <<1, last'.localPort>> ELSE before.LocalIP
            /\ \A j \in DOMAIN sess[s].Clients \ {last'.index} :
                  /\ sess'[s].Clients[j].NegotiateIP = sess[s].Clients[j].NegotiateIP
                  /\ sess'[s].Clients[j].ServerIP = sess[s].Clients[j].ServerIP
                  /\ sess'[s].Clients[j].LocalIP = sess[s].Clients[j].LocalIP]_vars

\* C15 witness: an accepted GamePort Init with local port 0 from one address
\* has been handled for a client whose negotiateIP and localIP were learnt
\* before, the negotiateIP from another address: the serverIP is the packet's
\* source and the other two fields are kept.
C15_Witness ==
    /\ last.op = "Init" /\ last.accepted
    /\ last.portType = PortTypeGamePort /\ last.localPort = 0
    /\ LET client == sess[last.session].Clients[last.index]
       IN /\ client.ServerIP = <<last.addr.ip, last.addr.port>>
          /\ client.NegotiateIP \notin {NoAddr, client.ServerIP}
          /\ client.LocalIP # NoAddr

\* The retry goroutines the step starts.
Started == tasks' (-) tasks

\* The number of goroutines of the bag that are for an edge of client i.
Involving(bag, i) ==
    LET mine == {t \in BagToSet(bag) : i \in {t.sender, t.destination}}
    IN BagCardinality([t \in mine |-> bag[t]])

\* C16 (as claimed): one run of the pairing engine starts at most one retry
\* goroutine that involves a given client, only for clients that were idle
\* when the engine was entered and are mapped, and when the run returns the
\* two clients of every pair it formed target each other.
C16_EnginePairsEachClientOnce ==
    [][last'.engine =>
         LET s == last'.session
             clients == sess'[s].Clients
         IN /\ \A i \in DOMAIN clients : Involving(Started, i) <= 1
            /\ \A t \in BagToSet(Started) :
                  /\ t.session = s
                  /\ {t.sender, t.destination} \subseteq IdleAtEntry(s)
                  /\ isMapped(clients[t.sender]) /\ isMapped(clients[t.destination])
                  /\ clients[t.sender].ConnectingIndex = t.destination
                  /\ clients[t.destination].ConnectingIndex = t.sender]_vars

\* C17 (as claimed): the pairing engine starts no retry goroutine for two
\* clients of which one records the other as connected.  The engine does not
\* write the connected sets, so they are at its return what they were when
\* it was entered.
C17_EngineNeverPairsConnected ==
    [][last'.engine =>
         LET clients == sess'[last'.session].Clients
         IN \A t \in BagToSet(Started) :
               /\ t.destination \notin clients[t.sender].Connected
               /\ t.sender \notin clients[t.destination].Connected]_vars

\* The retry goroutines of the bag for the edge {a, b} of session s.
TasksFor(bag, s, a, b) ==
    LET mine == {t \in BagToSet(bag) :
                   t.session = s /\ {t.sender, t.destination} = {a, b}}
    IN BagCardinality([t \in mine |-> bag[t]])

\* Client b of the clients targets a, another client, and has not acknowledged.
Awaits(clients, b, a) ==
    /\ clients[b].ConnectingIndex = a
    /\ a # b
    /\ ~clients[b].ConnectAck

\* The Connect-Requests among the packets that are written to the signalling
\* address of `receiver` and carry the serverIP of `other`.
RequestsTo(packets, receiver, other) ==
    {k \in BagToSet(packets) :
       /\ k.command = NNConnectRequest
       /\ receiver.NegotiateIP # NoAddr
       /\ k.to = [ip |-> receiver.NegotiateIP[1], port |-> receiver.NegotiateIP[2]]
       /\ k.payload = other.ServerIP}

\* C18: while the process runs and a session is open, for every client B of
\* it that targets another client A and has not acknowledged, a retry
\* goroutine for the edge of A and B is running; each round of a goroutine of
\* an open session writes one Connect-Request for each client of its edge
\* that awaits the other, to that client and naming the other, and the
\* goroutine goes on; a goroutine ends only by a round of its own at which the
\* session is closed or neither client of its edge awaits the other.
C18_RetryAtLeastOnce ==
    /\ [](\A s \in SessionIds : \A b \in DOMAIN sess[s].Clients :
            LET a == sess[s].Clients[b].ConnectingIndex
            IN (~crashed /\ sess[s].Open /\ Awaits(sess[s].Clients, b, a)) =>
                  /\ a \in DOMAIN sess[s].Clients
                  /\ TasksFor(tasks, s, a, b) >= 1)
    /\ [][(last'.op = "RetryRound" /\ sess[last'.session].Open) =>
            LET clients == sess[last'.session].Clients
                a == last'.index
                b == last'.peer
                awaiting == {e \in {<<a, b>>, <<b, a>>} : Awaits(clients, e[2], e[1])}
            IN /\ \A e \in awaiting :
                     RequestsTo(out', clients[e[2]], clients[e[1]]) # {}
               /\ BagCardinality(out') = Cardinality(awaiting)
               /\ awaiting # {} => tasks' = tasks]_vars
    /\ [][\A t \in BagToSet(tasks) :
            (IF t \in DOMAIN tasks' THEN tasks'[t] ELSE 0) < tasks[t] =>
               /\ last'.op = "RetryRound"
               /\ last'.session = t.session
               /\ last'.index = t.sender /\ last'.peer = t.destination
               /\ \/ ~sess[t.session].Open
                  \/ /\ ~Awaits(sess[t.session].Clients, t.sender, t.destination)
                     /\ ~Awaits(sess[t.session].Clients, t.destination, t.sender)]_vars

\* C18 witness: a round of the goroutine of an edge in an open session, of
\* which one client has acknowledged and the other, at another address, has
\* not: one Connect-Request was written, to the latter, and the goroutine runs.
C18_Witness ==
    /\ last.op = "RetryRound"
    /\ sess[last.session].Open
    /\ TasksFor(tasks, last.session, last.index, last.peer) = 1
    /\ BagCardinality(out) = 1
    /\ \E a, b \in {last.index, last.peer} :
          LET clients == sess[last.session].Clients
          IN /\ Awaits(clients, b, a)
             /\ clients[a].ConnectAck
             /\ clients[a].NegotiateIP # clients[b].NegotiateIP
             /\ RequestsTo(out, clients[b], clients[a]) # {}

(***************************************************************************)
(* The pairing environment with the scheduling of the retry goroutines and *)
(* of the timer: a goroutine runs its next round when its sleep of 500 ms  *)
(* is over, time passes, and a due timer runs its callback to the end.     *)
(***************************************************************************)
SpecRetry ==
    /\ Init
    /\ [][NextPairing]_vars
    /\ WF_vars(RetryRound)
    /\ WF_vars(Tick)
    /\ WF_vars(Expiry)

\* C19: eventually no retry goroutine runs any more; a round of a goroutine
\* ends the goroutine exactly if the session is closed or neither client of
\* its edge awaits the other, and a round that finds the session closed writes
\* no packet.
C19_RetryTerminates ==
    /\ <>[](tasks = EmptyBag)
    /\ [][last'.op = "RetryRound" =>
            LET session == sess[last'.session]
                t == TaskOf(last'.session, <<last'.index, last'.peer>>)
                stops == \/ ~session.Open
                         \/ /\ ~Awaits(session.Clients, t.sender, t.destination)
                            /\ ~Awaits(session.Clients, t.destination, t.sender)
            IN /\ t \in DOMAIN tasks
               /\ stops => /\ tasks' = tasks (-) SetToBag({t})
                           /\ out' = NoPackets
               /\ ~stops => tasks' = tasks /\ out' # NoPackets
               /\ sess' = sess]_vars

\* C19 witness: a goroutine whose clients still await each other found its
\* session closed by the expiry callback, wrote nothing and ended; none runs.
C19_Witness ==
    /\ last.op = "RetryRound"
    /\ ~sess[last.session].Open
    /\ timer[last.session].pc \in {"fired", "deleted", "done"}
    /\ Awaits(sess[last.session].Clients, last.index, last.peer)
    /\ Awaits(sess[last.session].Clients, last.peer, last.index)
    /\ out = NoPackets
    /\ tasks = EmptyBag

\* C20 (as claimed): when two or more retry goroutines run for one pair of
\* clients of an open session, neither client of the pair awaits the other:
\* the goroutines of a pair read the same fields, so the earlier one ends at
\* its next round without sending only if the later one does so too.
C20_OneRetryTaskPerPair ==
    \A s \in SessionIds : \A a, b \in DOMAIN sess[s].Clients :
       (a # b /\ sess[s].Open /\ TasksFor(tasks, s, a, b) >= 2) =>
          /\ ~Awaits(sess[s].Clients, a, b)
          /\ ~Awaits(sess[s].Clients, b, a)

\* The expiry callback of session s has run to its end.
Expired(s) == timer[s].pc = "done"

\* C21 (as claimed): once the expiry callback of a session has completed, no
\* step creates or changes a client of the session or starts a retry
\* goroutine for it, also the step of a goroutine of handleConnection that
\* fetched the session from the registry before the callback removed it; so
\* every client of an expired session that targets another client did so
\* when the callback sent its cancellations.
C21_NoChangeAfterExpiry ==
    [][\A s \in SessionIds :
         Expired(s) =>
            /\ sess'[s].Clients = sess[s].Clients
            /\ \A t \in BagToSet(Started) : t.session # s]_vars

====
